---- MODULE Spec2Model ----
(***************************************************************************)
(* Website performance analyzer: the static-analysis route.                *)
(*                                                                         *)
(* The route handler POST validates the url of the request, fetches the    *)
(* page, loads the text into Cheerio and hands the parsed document to      *)
(* analyzeResourcesWithCheerio, which tallies the sub-resources it finds   *)
(* into six categories with an estimated size each.                        *)
(*                                                                         *)
(* A parsed document is a sequence of elements in document order.  An      *)
(* attribute is <<>> when the element does not carry it and <<v>> when it  *)
(* carries the value v (a string, possibly empty).  The text of a style or *)
(* script element is a sequence of Unicode code points.                    *)
(***************************************************************************)
EXTENDS Integers, Sequences, FiniteSets, TLC

VARIABLES
    pc,                \* where the handler stands: "idle", "fetch", "text", "done"
    url,               \* the url of the request
    html,              \* the page that was fetched: its parsed elements and its byte length
    resourceAnalysis,  \* what analyzeResourcesWithCheerio returned to the handler
    response,          \* the response of the handler
    flight,            \* the handler invocations that are in flight at once
    pup,               \* the invocation of the handler that drives a browser
    form               \* the page of the form: its state and its requests

vars == <<pc, url, html, resourceAnalysis, response, flight, pup, form>>

(***************************************************************************)
(* Bounds of the model.                                                    *)
(***************************************************************************)
MaxElems == 2

\* the elements of a document of the requests that are in flight at once
MaxFlightElems == 1

\* the handler invocations that are in flight at once
Invocations == {1, 2}

\* the responses the browser reports while one page is analysed
MaxResponses == 2

\* the elements of a document of images, font links and inline blocks
MaxRuleElems == 2

\* the requests of the form that the model lets be under way at once
MaxInFlight == 2

(***************************************************************************)
(* JavaScript strings.                                                      *)
(***************************************************************************)
None == <<>>

Some(v) == <<v>>

\* the one-character string at position i of s, "" outside s
CharAt(s, i) == IF i >= 1 /\ i <= Len(s) THEN SubSeq(s, i, i) ELSE ""

\* String.prototype.includes
Includes(s, sub) ==
    \E i \in 1..(Len(s) - Len(sub) + 1) : SubSeq(s, i, i + Len(sub) - 1) = sub

UpperLetters == "ABCDEFGHIJKLMNOPQRSTUVWXYZ"

LowerLetters == "abcdefghijklmnopqrstuvwxyz"

\* the lower-case letter of every upper-case letter
LowerOf ==
    [c \in {CharAt(UpperLetters, i) : i \in 1..Len(UpperLetters)} |->
        CharAt(LowerLetters, CHOOSE i \in 1..Len(UpperLetters) : CharAt(UpperLetters, i) = c)]

LowerChar(c) == IF c \in DOMAIN LowerOf THEN LowerOf[c] ELSE c

RECURSIVE toLowerCase(_)
\* String.prototype.toLowerCase
toLowerCase(s) ==
    IF Len(s) = 0 THEN ""
    ELSE LowerChar(CharAt(s, 1)) \o toLowerCase(SubSeq(s, 2, Len(s)))

\* src.split('.').pop(): the text after the last '.', the whole string without one
SplitDotPop(s) ==
    LET dots == {i \in 1..Len(s) : CharAt(s, i) = "."}
    IN  IF dots = {} THEN s
        ELSE LET last == CHOOSE i \in dots : \A j \in dots : j <= i
             IN  SubSeq(s, last + 1, Len(s))

\* JavaScript truthiness of an attribute value: undefined and "" are falsy
Truthy(a) == a # None /\ Len(a[1]) > 0

\* a || b on attribute values
OrElse(a, b) == IF Truthy(a) THEN a ELSE b

(***************************************************************************)
(* Text content: code points, whitespace and UTF-8 length.                  *)
(***************************************************************************)
\* the code points String.prototype.trim removes that the model uses
WhiteSpace == {9, 10, 13, 32}

\* content.trim() is non-empty
TrimNonEmpty(content) == \E i \in 1..Len(content) : content[i] \notin WhiteSpace

Utf8Bytes(cp) ==
    IF cp < 128 THEN 1
    ELSE IF cp < 2048 THEN 2
    ELSE IF cp < 65536 THEN 3
    ELSE 4

RECURSIVE byteLength(_)
\* Buffer.byteLength(content, 'utf8')
byteLength(content) ==
    IF content = <<>> THEN 0
    ELSE Utf8Bytes(Head(content)) + byteLength(Tail(content))

(***************************************************************************)
(* Size heuristics.                                                         *)
(***************************************************************************)
estimateCSSSize(href) ==
    IF Includes(href, "bootstrap") \/ Includes(href, "tailwind") THEN 150000
    ELSE IF Includes(href, "font-awesome") \/ Includes(href, "material-icons") THEN 75000
    ELSE IF Includes(href, ".min.css") THEN 25000
    ELSE 40000

\* mutant: the minified suffix is looked for before the library names
estimateJSSizeSuffixFirst(src) ==
    IF Includes(src, ".min.js") THEN 30000
    ELSE IF Includes(src, "react") \/ Includes(src, "vue") \/ Includes(src, "angular") THEN 200000
    ELSE IF Includes(src, "jquery") THEN 85000
    ELSE IF Includes(src, "lodash") \/ Includes(src, "moment") THEN 70000
    ELSE 50000

estimateJSSize(src) ==
    IF Includes(src, "react") \/ Includes(src, "vue") \/ Includes(src, "angular") THEN 200000
    ELSE IF Includes(src, "jquery") THEN 85000
    ELSE IF Includes(src, "lodash") \/ Includes(src, "moment") THEN 70000
    ELSE IF Includes(src, ".min.js") THEN 30000
    ELSE 50000

estimateImageSize(src) ==
    LET ext == toLowerCase(SplitDotPop(src))
    IN  IF ext = "svg" THEN 5000
        ELSE IF ext = "png" THEN 80000
        ELSE IF ext = "jpg" \/ ext = "jpeg" THEN 60000
        ELSE IF ext = "webp" THEN 40000
        ELSE IF ext = "gif" THEN 100000
        ELSE 75000

estimateFontSize(href) ==
    LET ext == toLowerCase(SplitDotPop(href))
    IN  IF ext = "woff2" THEN 25000
        ELSE IF ext = "woff" THEN 35000
        ELSE IF ext = "ttf" THEN 60000
        ELSE 30000

estimateOtherResourceSize(href) ==
    IF Includes(href, "favicon") THEN 5000
    ELSE IF Includes(href, "manifest") THEN 2000
    ELSE 20000

(***************************************************************************)
(* extractBackgroundImage.  The pattern of the source is                    *)
(*   /background-image:\\s*url\\(['\"]?([^'\"]+)['\"]?\\)/i                   *)
(* in which \\ is an escaped backslash: the pattern is the text             *)
(* "background-image:", a backslash, any number of "s", the text "url", a   *)
(* backslash, and a group that holds an optional quote, one or more         *)
(* characters that are no quote, an optional quote and a backslash.  The    *)
(* inner group of characters is the second group; match[1] is the outer     *)
(* one.  Letters match in either case.                                      *)
(***************************************************************************)
BackSlash == "\\"

Quotes == {"'", "\""}

\* number of consecutive characters of s from position p on that satisfy no-quote
RECURSIVE NoQuoteRun(_, _)
NoQuoteRun(s, p) ==
    IF p > Len(s) \/ CharAt(s, p) \in Quotes THEN 0
    ELSE 1 + NoQuoteRun(s, p + 1)

\* number of consecutive "s" or "S" from position p on
RECURSIVE SRun(_, _)
SRun(s, p) ==
    IF p <= Len(s) /\ LowerChar(CharAt(s, p)) = "s" THEN 1 + SRun(s, p + 1)
    ELSE 0

\* the match of the pattern that starts at position i: <<>> or <<match[1]>>
BgMatchAt(s, i) ==
    LET lit1 == "background-image:" \o BackSlash
        lit2 == "url" \o BackSlash
        j    == i + Len(lit1)
        k    == j + SRun(s, j)
        p    == k + Len(lit2)
        q    == IF CharAt(s, p) \in Quotes THEN p + 1 ELSE p
        r    == NoQuoteRun(s, q)
        \* greedy: the whole run, then a quote and the backslash
        full == r >= 1 /\ CharAt(s, q + r) \in Quotes /\ CharAt(s, q + r + 1) = BackSlash
        \* else the longest shorter run that a backslash follows
        cuts == {n \in 1..(r - 1) : CharAt(s, q + n) = BackSlash}
    IN  IF i + Len(lit1) - 1 > Len(s)
           \/ toLowerCase(SubSeq(s, i, j - 1)) # lit1 THEN None
        ELSE IF k + Len(lit2) - 1 > Len(s)
           \/ toLowerCase(SubSeq(s, k, p - 1)) # lit2 THEN None
        ELSE IF full THEN Some(SubSeq(s, p, q + r + 1))
        ELSE IF cuts # {} THEN
            Some(SubSeq(s, p, q + (CHOOSE n \in cuts : \A m \in cuts : m <= n)))
        ELSE None

extractBackgroundImage(style) ==
    IF ~Truthy(style) THEN None
    ELSE LET s    == style[1]
             hits == {i \in 1..Len(s) : LowerChar(CharAt(s, i)) = "b" /\ BgMatchAt(s, i) # None}
         IN  IF hits = {} THEN None
             ELSE BgMatchAt(s, CHOOSE i \in hits : \A j \in hits : i <= j)

(***************************************************************************)
(* Elements and the selectors of analyzeResourcesWithCheerio.  A selector   *)
(* [attr="v"] matches the whole value and [attr*="v"] a part of it, letter  *)
(* for letter; the rel and as values of the documents below are lower case. *)
(***************************************************************************)
Elem(tag) ==
    [tag |-> tag, rel |-> None, as |-> None, href |-> None, src |-> None,
     srcset |-> None, style |-> None, name |-> None, content |-> None,
     text |-> <<>>, inside |-> {}]

Categories == {"document", "stylesheet", "script", "image", "font", "other"}

\* mutant: every preload link is taken for a stylesheet
IsCssLinkAnyPreload(e) ==
    /\ e.tag = "link"
    /\ (e.rel = Some("stylesheet") \/ e.rel = Some("preload"))

\* link[rel="stylesheet"], link[rel="preload"][as="style"]
IsCssLink(e) ==
    /\ e.tag = "link"
    /\ \/ e.rel = Some("stylesheet")
       \/ e.rel = Some("preload") /\ e.as = Some("style")

\* style
IsInlineStyle(e) == e.tag = "style"

\* script[src]
IsScriptTag(e) == e.tag = "script" /\ e.src # None

\* script:not([src])
IsInlineScript(e) == e.tag = "script" /\ e.src = None

\* img, picture source, [style*="background-image"]
IsImage(e) ==
    \/ e.tag = "img"
    \/ e.tag = "source" /\ "picture" \in e.inside
    \/ e.style # None /\ Includes(e.style[1], "background-image")

\* link[rel="preload"][as="font"], link[href*="font"]
IsFontLink(e) ==
    /\ e.tag = "link"
    /\ \/ e.rel = Some("preload") /\ e.as = Some("font")
       \/ e.href # None /\ Includes(e.href[1], "font")

\* link[href*="fonts.googleapis.com"], link[href*="fonts.google.com"], link[href*="typekit.net"]
IsWebFontCSS(e) ==
    /\ e.tag = "link"
    /\ e.href # None
    /\ \/ Includes(e.href[1], "fonts.googleapis.com")
       \/ Includes(e.href[1], "fonts.google.com")
       \/ Includes(e.href[1], "typekit.net")

\* link[rel="icon"], link[rel="manifest"], embed, object, audio, video
IsOtherResource(e) ==
    \/ e.tag = "link" /\ (e.rel = Some("icon") \/ e.rel = Some("manifest"))
    \/ e.tag \in {"embed", "object", "audio", "video"}

(***************************************************************************)
(* analyzeResourcesWithCheerio.  The state of one run is the breakdown and  *)
(* the running total; every rule visits the elements its selector matches,  *)
(* in document order.                                                       *)
(***************************************************************************)
\* mutant: the breakdown starts with the categories of sub-resources only
InitialBreakdownWithoutDocument ==
    [c \in Categories \ {"document"} |-> [count |-> 0, size |-> 0]]

\* mutant: the document starts at zero like the other categories
InitialBreakdownAllZero ==
    [c \in Categories |-> [count |-> 0, size |-> 0]]

InitialBreakdown ==
    [c \in Categories |->
        IF c = "document" THEN [count |-> 1, size |-> 0] ELSE [count |-> 0, size |-> 0]]

\* breakdown[cat].count += n; breakdown[cat].size += size; totalEstimatedSize += size
Tally(st, cat, n, size) ==
    [breakdown |->
        [st.breakdown EXCEPT ![cat] =
            [count |-> @.count + n, size |-> @.size + size]],
     totalEstimatedSize |-> st.totalEstimatedSize + size]

cssLinksVisit(e, st) ==
    IF IsCssLink(e) /\ Truthy(e.href)
    THEN Tally(st, "stylesheet", 1, estimateCSSSize(e.href[1]))
    ELSE st

\* mutant: the size of an inline style is not added to the running total
inlineStylesVisitNoTotal(e, st) ==
    IF IsInlineStyle(e) /\ e.text # <<>>
    THEN [Tally(st, "stylesheet", 1, byteLength(e.text))
             EXCEPT !.totalEstimatedSize = st.totalEstimatedSize]
    ELSE st

inlineStylesVisit(e, st) ==
    IF IsInlineStyle(e) /\ e.text # <<>>
    THEN Tally(st, "stylesheet", 1, byteLength(e.text))
    ELSE st

scriptTagsVisit(e, st) ==
    IF IsScriptTag(e) /\ Truthy(e.src)
    THEN Tally(st, "script", 1, estimateJSSize(e.src[1]))
    ELSE st

\* mutant: an inline script is counted whenever its body is not empty
inlineScriptsVisitWithoutTrim(e, st) ==
    IF IsInlineScript(e) /\ e.text # <<>>
    THEN Tally(st, "script", 1, byteLength(e.text))
    ELSE st

inlineScriptsVisit(e, st) ==
    IF IsInlineScript(e) /\ e.text # <<>> /\ TrimNonEmpty(e.text)
    THEN Tally(st, "script", 1, byteLength(e.text))
    ELSE st

\* attr('src') || attr('srcset') || extractBackgroundImage(attr('style'))
ImageSource(e) == OrElse(e.src, OrElse(e.srcset, extractBackgroundImage(e.style)))

\* mutant: the image is counted before its source is looked at
imagesVisitCountsFirst(e, st) ==
    IF ~IsImage(e) THEN st
    ELSE IF Truthy(ImageSource(e))
    THEN Tally(st, "image", 1, estimateImageSize(ImageSource(e)[1]))
    ELSE Tally(st, "image", 1, 0)

imagesVisit(e, st) ==
    IF IsImage(e) /\ Truthy(ImageSource(e))
    THEN Tally(st, "image", 1, estimateImageSize(ImageSource(e)[1]))
    ELSE st

\* mutant: a link is tallied once for each alternative of the selector it matches
fontLinksVisitPerAlternative(e, st) ==
    IF IsFontLink(e) /\ Truthy(e.href)
    THEN LET n == (IF e.rel = Some("preload") /\ e.as = Some("font") THEN 1 ELSE 0)
                  + (IF Includes(e.href[1], "font") THEN 1 ELSE 0)
         IN  Tally(st, "font", n, n * estimateFontSize(e.href[1]))
    ELSE st

fontLinksVisit(e, st) ==
    IF IsFontLink(e) /\ Truthy(e.href)
    THEN Tally(st, "font", 1, estimateFontSize(e.href[1]))
    ELSE st

\* mutant: the estimate is added once for each of the two fonts
webFontCSSVisitPerFont(e, st) ==
    IF IsWebFontCSS(e)
    THEN Tally(st, "font", 2, 2 * 60000)
    ELSE st

webFontCSSVisit(e, st) ==
    IF IsWebFontCSS(e)
    THEN Tally(st, "font", 2, 60000)
    ELSE st

otherResourcesVisit(e, st) ==
    IF IsOtherResource(e) /\ Truthy(OrElse(e.href, e.src))
    THEN Tally(st, "other", 1, estimateOtherResourceSize(OrElse(e.href, e.src)[1]))
    ELSE st

\* the rules in the order the function runs them
Rules ==
    <<"cssLinks", "inlineStyles", "scriptTags", "inlineScripts",
      "images", "fontLinks", "webFontCSS", "otherResources">>

Visit(rule, e, st) ==
    CASE rule = "cssLinks"       -> cssLinksVisit(e, st)
      [] rule = "inlineStyles"   -> inlineStylesVisit(e, st)
      [] rule = "scriptTags"     -> scriptTagsVisit(e, st)
      [] rule = "inlineScripts"  -> inlineScriptsVisit(e, st)
      [] rule = "images"         -> imagesVisit(e, st)
      [] rule = "fontLinks"      -> fontLinksVisit(e, st)
      [] rule = "webFontCSS"     -> webFontCSSVisit(e, st)
      [] rule = "otherResources" -> otherResourcesVisit(e, st)

\* selection.each(...) of one rule over the elements from position i on
RECURSIVE Each(_, _, _, _)
Each(rule, doc, i, st) ==
    IF i > Len(doc) THEN st
    ELSE Each(rule, doc, i + 1, Visit(rule, doc[i], st))

\* the rules from rule number r on, one after the other
RECURSIVE RunRules(_, _, _)
RunRules(doc, r, st) ==
    IF r > Len(Rules) THEN st
    ELSE RunRules(doc, r + 1, Each(Rules[r], doc, 1, st))

(***************************************************************************)
(* Where a callback of the rules raises.  The callbacks call methods of     *)
(* what they read (url.includes, url.split, style.match); a method called   *)
(* on undefined or null raises a TypeError, which leaves the function and   *)
(* is caught by the handler.                                                *)
(***************************************************************************)
RaisesTypeError(receiver) == receiver = None

\* estimateCSSSize, estimateJSSize, estimateImageSize, estimateFontSize and
\* estimateOtherResourceSize start with url.includes(...) or url.split('.')
EstimateRaises(arg) == RaisesTypeError(arg)

\* if (!style) return null; style.match(...)
extractBackgroundImageRaises(style) == ~(~Truthy(style)) /\ RaisesTypeError(style)

cssLinksRaises(e) == IsCssLink(e) /\ Truthy(e.href) /\ EstimateRaises(e.href)

scriptTagsRaises(e) == IsScriptTag(e) /\ Truthy(e.src) /\ EstimateRaises(e.src)

\* mutant: the size of the image is estimated without the test of its source
imagesRaisesWithoutTest(e) ==
    IsImage(e) /\ EstimateRaises(ImageSource(e))

imagesRaises(e) ==
    /\ IsImage(e)
    /\ \/ /\ ~Truthy(e.src) /\ ~Truthy(e.srcset)
          /\ extractBackgroundImageRaises(e.style)
       \/ Truthy(ImageSource(e)) /\ EstimateRaises(ImageSource(e))

fontLinksRaises(e) == IsFontLink(e) /\ Truthy(e.href) /\ EstimateRaises(e.href)

otherResourcesRaises(e) ==
    /\ IsOtherResource(e)
    /\ Truthy(OrElse(e.href, e.src))
    /\ EstimateRaises(OrElse(e.href, e.src))

VisitRaises(rule, e) ==
    CASE rule = "cssLinks"       -> cssLinksRaises(e)
      [] rule = "scriptTags"     -> scriptTagsRaises(e)
      [] rule = "images"         -> imagesRaises(e)
      [] rule = "fontLinks"      -> fontLinksRaises(e)
      [] rule = "otherResources" -> otherResourcesRaises(e)
      [] OTHER                   -> FALSE

\* some callback of some rule raises on an element of doc
AnalysisRaises(doc) ==
    \E r \in 1..Len(Rules), i \in 1..Len(doc) : VisitRaises(Rules[r], doc[i])

\* Object.values(breakdown).reduce((sum, item) => sum + item.count, 0)
RECURSIVE SumCounts(_, _)
SumCounts(breakdown, cats) ==
    IF cats = {} THEN 0
    ELSE LET c == CHOOSE x \in cats : TRUE
         IN  breakdown[c].count + SumCounts(breakdown, cats \ {c})

\* mutant: the document's own entry is left out of the sum
totalRequestsSkipsDocument(breakdown) ==
    SumCounts(breakdown, DOMAIN breakdown \ {"document"})

totalRequestsOf(breakdown) == SumCounts(breakdown, DOMAIN breakdown)

\* mutant: the breakdown and the total live outside the function, and a call
\* goes on from what a call that is still held left in them
NewTallyOutsideTheFunction ==
    LET held == {p \in DOMAIN flight : flight[p].resourceAnalysis # None}
    IN  IF held = {}
        THEN [breakdown |-> InitialBreakdown, totalEstimatedSize |-> 0]
        ELSE LET a == flight[CHOOSE p \in held : TRUE].resourceAnalysis[1]
             IN  [breakdown |-> a.breakdown, totalEstimatedSize |-> a.totalEstimatedSize]

\* const breakdown = {...}; let totalEstimatedSize = 0: made anew by every call
NewTally == [breakdown |-> InitialBreakdown, totalEstimatedSize |-> 0]

analyzeResourcesWithCheerio(doc) ==
    LET st == RunRules(doc, 1, NewTally)
    IN  [breakdown          |-> st.breakdown,
         totalRequests      |-> totalRequestsOf(st.breakdown),
         totalEstimatedSize |-> st.totalEstimatedSize]

(***************************************************************************)
(* The documents of the model: sequences of at most MaxElems elements of a  *)
(* pool that holds, for every rule, elements the rule counts, elements its  *)
(* selector matches but that carry nothing to count, and identifiers that   *)
(* hit each branch of the size heuristics.                                  *)
(***************************************************************************)
Link(rel, as, href) == [Elem("link") EXCEPT !.rel = rel, !.as = as, !.href = href]

Script(src, text) == [Elem("script") EXCEPT !.src = src, !.text = text]

Style(text) == [Elem("style") EXCEPT !.text = text]

Img(src, srcset, style) ==
    [Elem("img") EXCEPT !.src = src, !.srcset = srcset, !.style = style]

Source(parent, src, srcset) ==
    [Elem("source") EXCEPT !.inside = {parent}, !.src = src, !.srcset = srcset]

Styled(tag, style) == [Elem(tag) EXCEPT !.style = Some(style)]

Media(tag, src) == [Elem(tag) EXCEPT !.src = src]

Title(text) == [Elem("title") EXCEPT !.text = text]

Meta(name, content) == [Elem("meta") EXCEPT !.name = Some(name), !.content = content]

GoogleFontsHref == "//fonts.googleapis.com/css?family=Roboto"

LinkPool ==
    { Link(Some("stylesheet"), None, Some("app.min.css")),
      Link(Some("stylesheet"), None, Some("bootstrap.min.css")),
      Link(Some("stylesheet"), None, Some("Bootstrap.css")),
      Link(Some("stylesheet"), None, Some("font-awesome.min.css")),
      Link(Some("preload"), Some("style"), Some("tailwind.css")),
      Link(Some("stylesheet"), None, Some("")),
      Link(Some("stylesheet"), None, None),
      Link(None, None, Some(GoogleFontsHref)),
      Link(Some("stylesheet"), None, Some("//use.typekit.net/a.css")),
      Link(Some("preload"), Some("font"), Some("//fonts.google.com/i.woff2")),
      Link(Some("preload"), Some("font"), Some("/f/inter.woff")),
      Link(Some("icon"), None, Some("/favicon.ico")),
      Link(Some("manifest"), None, Some("/site.webmanifest")) }

ScriptPool ==
    { Script(Some("jquery.min.js"), <<>>),
      Script(Some("jQuery.js"), <<>>),
      Script(Some("jquery.js"), <<>>),
      Script(Some("react/jquery.min.js"), <<>>),
      Script(Some("lodash/jquery.min.js"), <<>>),
      Script(Some("lodash.min.js"), <<>>),
      Script(Some("app.min.js"), <<>>),
      Script(Some(""), <<97>>),
      Script(None, <<97, 61, 49>>),
      Script(None, <<32, 10>>) }

StylePool ==
    { Style(<<233, 8364>>),
      Style(<<>>) }

ImagePool ==
    { Img(Some("a.png"), None, None),
      Img(None, Some("b.JPG"), None),
      Img(None, None, None),
      Img(Some(""), None, Some("background-image: url(c.gif)")),
      Styled("div", "background-image:" \o BackSlash \o "url" \o BackSlash \o "d.svg" \o BackSlash),
      Source("picture", None, Some("f.webp")) }

OtherPool ==
    { Media("video", Some("movie.mp4")),
      Title(<<84>>),
      Meta("description", Some("d")) }

ElementPool == LinkPool \cup ScriptPool \cup StylePool \cup ImagePool \cup OtherPool

RECURSIVE SeqsUpTo(_, _)
SeqsUpTo(S, n) ==
    IF n = 0 THEN {<<>>}
    ELSE LET shorter == SeqsUpTo(S, n - 1)
         IN  shorter \cup {Append(d, e) : d \in shorter, e \in S}

Documents == SeqsUpTo(ElementPool, MaxElems)

\* Buffer.byteLength(html, 'utf8') of the texts that were fetched
HtmlSizes == {0, 2048}

(***************************************************************************)
(* The route handler.                                                       *)
(***************************************************************************)
Letters == UpperLetters \o LowerLetters

IsLetter(c) == \E i \in 1..Len(Letters) : CharAt(Letters, i) = c

\* new URL(url) does not throw: the text starts with a scheme, and a web
\* scheme is followed by a host
URLParses(u) ==
    \E i \in 2..Len(u) :
        /\ CharAt(u, i) = ":"
        /\ \A j \in 1..(i - 1) : IsLetter(CharAt(u, j))
        /\ toLowerCase(SubSeq(u, 1, i - 1)) \in {"http", "https"} =>
              \E j \in (i + 1)..Len(u) : CharAt(u, j) \notin {"/", BackSlash}

\* the requests of the model: a body that is no JSON, and bodies with and
\* without a url
Requests ==
    { [json |-> FALSE, url |-> None],
      [json |-> TRUE, url |-> None],
      [json |-> TRUE, url |-> Some("")],
      [json |-> TRUE, url |-> Some("not a url")],
      [json |-> TRUE, url |-> Some("http://")],
      [json |-> TRUE, url |-> Some("https://example.com/")] }

NoHtml == [doc |-> <<>>, size |-> 0]

NoResponse == [status |-> 0, error |-> "", results |-> None]

ErrorResponse(status, error) == [status |-> status, error |-> error, results |-> None]

FailedToAnalyze ==
    "Failed to analyze URL. Please check if the URL is accessible and try again."

\* $('title').text(): the texts of the title elements, one after the other
RECURSIVE TitleText(_, _)
TitleText(doc, i) ==
    IF i > Len(doc) THEN <<>>
    ELSE (IF doc[i].tag = "title" THEN doc[i].text ELSE <<>>) \o TitleText(doc, i + 1)

\* $('meta[name="description"]').attr('content'): of the first such element
MetaContent(doc) ==
    LET hits == {i \in 1..Len(doc) :
                    doc[i].tag = "meta" /\ doc[i].name = Some("description")}
    IN  IF hits = {} THEN None
        ELSE doc[CHOOSE i \in hits : \A j \in hits : i <= j].content

\* mutant: pageSize is the estimated total alone
ResultsWithoutHtmlSize(u, h, analysis) ==
    [url               |-> u,
     pageSize          |-> analysis.totalEstimatedSize,
     requestCount      |-> analysis.totalRequests,
     resourceBreakdown |-> analysis.breakdown,
     htmlSize          |-> h.size,
     title             |-> <<"default", "No title found">>,
     metaDescription   |-> "No description found"]

\* the results object of a successful analysis; loadTime and timestamp are
\* readings of the clock and are left out
Results(u, h, analysis) ==
    LET htmlSize      == h.size
        totalPageSize == htmlSize + analysis.totalEstimatedSize
    IN  [url               |-> u,
         pageSize          |-> totalPageSize,
         requestCount      |-> analysis.totalRequests,
         resourceBreakdown |-> analysis.breakdown,
         htmlSize          |-> htmlSize,
         title             |-> IF TitleText(h.doc, 1) # <<>>
                               THEN <<"text", TitleText(h.doc, 1)>>
                               ELSE <<"default", "No title found">>,
         metaDescription   |-> IF Truthy(MetaContent(h.doc))
                               THEN MetaContent(h.doc)[1]
                               ELSE "No description found"]

\* a handler invocation that has not read its request yet
IdleHandler ==
    [pc |-> "idle", url |-> None, html |-> NoHtml, resourceAnalysis |-> None,
     response |-> NoResponse]

\* the resourceBreakdown the browser handlers start from
ZeroBreakdown == [c \in Categories |-> [count |-> 0, size |-> 0]]

\* an invocation of a browser handler that has not read its request yet
IdlePup ==
    [route |-> "app", pc |-> "idle", url |-> None, browser |-> "none",
     listening |-> FALSE, requests |-> <<>>, resourceBreakdown |-> ZeroBreakdown,
     results |-> None, response |-> NoResponse]

\* the form before a page is opened
NoForm ==
    [page |-> "none", url |-> "", loading |-> FALSE, results |-> None,
     error |-> "", urlError |-> "", observing |-> FALSE, inflight |-> <<>>]

Init ==
    /\ pc = "idle"
    /\ url = None
    /\ html = NoHtml
    /\ resourceAnalysis = None
    /\ response = NoResponse
    /\ flight = [p \in Invocations |-> IdleHandler]
    /\ pup = IdlePup
    /\ form = NoForm

\* a request arrives: the body is read and the url validated, and the fetch starts
Post(req) ==
    /\ pc \in {"idle", "done"}
    /\ html' = NoHtml
    /\ resourceAnalysis' = None
    /\ IF ~req.json
       THEN /\ url' = None
            /\ response' = ErrorResponse(500, FailedToAnalyze)
            /\ pc' = "done"
       ELSE IF ~Truthy(req.url)
       THEN /\ url' = req.url
            /\ response' = ErrorResponse(400, "URL is required")
            /\ pc' = "done"
       ELSE IF ~URLParses(req.url[1])
       THEN /\ url' = req.url
            /\ response' = ErrorResponse(400, "Invalid URL format")
            /\ pc' = "done"
       ELSE /\ url' = req.url
            /\ response' = NoResponse
            /\ pc' = "fetch"
    /\ UNCHANGED <<flight, pup, form>>

\* await fetch(url) settles: it rejects, or resolves with response.ok or without
FetchSettles(outcome) ==
    /\ pc = "fetch"
    /\ IF outcome = "ok"
       THEN /\ pc' = "text"
            /\ UNCHANGED response
       ELSE /\ pc' = "done"
            /\ response' = ErrorResponse(500, FailedToAnalyze)
    /\ UNCHANGED <<url, html, resourceAnalysis, flight, pup, form>>

\* await response.text() resolves with the text h of a document of docs: the
\* analysis runs and the handler answers; what the analysis raises is caught
TextResolvesFrom(docs) ==
    /\ pc = "text"
    /\ \E doc \in docs, size \in HtmlSizes :
          LET h        == [doc |-> doc, size |-> size]
              analysis == analyzeResourcesWithCheerio(doc)
          IN  /\ html' = h
              /\ IF AnalysisRaises(doc)
                 THEN /\ resourceAnalysis' = None
                      /\ response' = ErrorResponse(500, FailedToAnalyze)
                 ELSE /\ resourceAnalysis' = Some(analysis)
                      /\ response' = [status |-> 200, error |-> "",
                                      results |-> Some(Results(url[1], h, analysis))]
    /\ pc' = "done"
    /\ UNCHANGED <<url, flight, pup, form>>

TextResolves == TextResolvesFrom(Documents)

\* await response.text() rejects
TextRejects ==
    /\ pc = "text"
    /\ response' = ErrorResponse(500, FailedToAnalyze)
    /\ pc' = "done"
    /\ UNCHANGED <<url, html, resourceAnalysis, flight, pup, form>>

Next ==
    \/ \E req \in Requests : Post(req)
    \/ \E outcome \in {"ok", "notOk", "rejected"} : FetchSettles(outcome)
    \/ TextResolves
    \/ TextRejects

Spec == Init /\ [][Next]_vars

(***************************************************************************)
(* Requests in flight at once.  Every request runs the handler in an        *)
(* invocation of its own; an invocation gives way to the others where it    *)
(* awaits (the fetch, the text of the response) and nowhere else, so the    *)
(* analysis runs from its first rule to its last without interruption.      *)
(***************************************************************************)
FlightPool ==
    { Link(Some("stylesheet"), None, Some("app.min.css")),
      Link(None, None, Some(GoogleFontsHref)),
      Script(Some("jquery.min.js"), <<>>),
      Style(<<233, 8364>>),
      Img(Some("a.png"), None, None),
      Img(None, None, None) }

FlightDocuments == SeqsUpTo(FlightPool, MaxFlightElems)

\* the invocation after it read the request: lines of Post
HandlerAfterPost(req) ==
    IF ~req.json
    THEN [IdleHandler EXCEPT !.pc = "done",
                             !.response = ErrorResponse(500, FailedToAnalyze)]
    ELSE IF ~Truthy(req.url)
    THEN [IdleHandler EXCEPT !.pc = "done", !.url = req.url,
                             !.response = ErrorResponse(400, "URL is required")]
    ELSE IF ~URLParses(req.url[1])
    THEN [IdleHandler EXCEPT !.pc = "done", !.url = req.url,
                             !.response = ErrorResponse(400, "Invalid URL format")]
    ELSE [IdleHandler EXCEPT !.pc = "fetch", !.url = req.url]

\* the invocation after its fetch settled
HandlerAfterFetch(h, outcome) ==
    IF outcome = "ok"
    THEN [h EXCEPT !.pc = "text"]
    ELSE [h EXCEPT !.pc = "done", !.response = ErrorResponse(500, FailedToAnalyze)]

\* the invocation after the text of the response arrived and was analysed
HandlerAfterText(h, page) ==
    LET analysis == analyzeResourcesWithCheerio(page.doc)
    IN  IF AnalysisRaises(page.doc)
        THEN [h EXCEPT !.pc = "done",
                       !.html = page,
                       !.response = ErrorResponse(500, FailedToAnalyze)]
        ELSE [h EXCEPT !.pc = "done",
                       !.html = page,
                       !.resourceAnalysis = Some(analysis),
                       !.response = [status |-> 200, error |-> "",
                                     results |-> Some(Results(h.url[1], page, analysis))]]

FlightPost(p, req) ==
    /\ flight[p].pc \in {"idle", "done"}
    /\ flight' = [flight EXCEPT ![p] = HandlerAfterPost(req)]
    /\ UNCHANGED <<pc, url, html, resourceAnalysis, response, pup, form>>

FlightFetchSettles(p, outcome) ==
    /\ flight[p].pc = "fetch"
    /\ flight' = [flight EXCEPT ![p] = HandlerAfterFetch(flight[p], outcome)]
    /\ UNCHANGED <<pc, url, html, resourceAnalysis, response, pup, form>>

FlightTextResolves(p) ==
    /\ flight[p].pc = "text"
    /\ \E doc \in FlightDocuments, size \in HtmlSizes :
          flight' = [flight EXCEPT ![p] =
                        HandlerAfterText(flight[p], [doc |-> doc, size |-> size])]
    /\ UNCHANGED <<pc, url, html, resourceAnalysis, response, pup, form>>

FlightTextRejects(p) ==
    /\ flight[p].pc = "text"
    /\ flight' = [flight EXCEPT ![p] = HandlerAfterFetch(flight[p], "rejected")]
    /\ UNCHANGED <<pc, url, html, resourceAnalysis, response, pup, form>>

NextInFlight ==
    \E p \in Invocations :
        \/ \E req \in Requests : FlightPost(p, req)
        \/ \E outcome \in {"ok", "notOk", "rejected"} : FlightFetchSettles(p, outcome)
        \/ FlightTextResolves(p)
        \/ FlightTextRejects(p)

SpecInFlight == Init /\ [][NextInFlight]_vars

(***************************************************************************)
(* Properties.                                                              *)
(***************************************************************************)
\* the handler answered with the results of an analysis
Succeeded == pc = "done" /\ response.status = 200

TheResults == response.results[1]

TheAnalysis == resourceAnalysis[1]

TheDoc == html.doc

SumOfSizes(b) ==
    b["document"].size + b["stylesheet"].size + b["script"].size
        + b["image"].size + b["font"].size + b["other"].size

SumOfCounts(b) ==
    b["document"].count + b["stylesheet"].count + b["script"].count
        + b["image"].count + b["font"].count + b["other"].count

\* C1: the totalEstimatedSize that analyzeResourcesWithCheerio returns is the
\* sum of the size fields of the six categories of the breakdown it returns.
C1_TotalIsSumOfSizes ==
    Succeeded =>
        TheAnalysis.totalEstimatedSize = SumOfSizes(TheAnalysis.breakdown)

\* C1 witness: an analysis of two counted elements of different categories.
C1_Witness ==
    /\ Succeeded
    /\ Len(TheDoc) = 2
    /\ TheAnalysis.breakdown["stylesheet"].size > 0
    /\ TheAnalysis.breakdown["font"].size > 0
    /\ TheAnalysis.totalEstimatedSize
          = TheAnalysis.breakdown["stylesheet"].size + TheAnalysis.breakdown["font"].size

\* C2: totalRequests, which the handler reports as requestCount, is the sum of
\* the count fields of the six categories, the document's own entry included.
C2_RequestCountIsSumOfCounts ==
    Succeeded =>
        /\ TheAnalysis.totalRequests = SumOfCounts(TheAnalysis.breakdown)
        /\ TheResults.requestCount = SumOfCounts(TheResults.resourceBreakdown)

\* C2 witness: a result that counts the document and sub-resources.
C2_Witness ==
    /\ Succeeded
    /\ TheResults.resourceBreakdown["script"].count = 1
    /\ TheResults.resourceBreakdown["font"].count = 3
    /\ TheResults.requestCount = 5

\* C3: in every successful result pageSize is htmlSize plus the sum of the
\* size fields of the six categories of resourceBreakdown of that result.
C3_PageSizeIsHtmlPlusSizes ==
    Succeeded =>
        TheResults.pageSize
            = TheResults.htmlSize + SumOfSizes(TheResults.resourceBreakdown)

\* C3 witness: a result with a non-empty page text and estimated resources.
C3_Witness ==
    /\ Succeeded
    /\ TheResults.htmlSize > 0
    /\ SumOfSizes(TheResults.resourceBreakdown) > 0
    /\ TheResults.pageSize > TheResults.htmlSize

\* C4: the breakdown has exactly the six category keys, each with count >= 0
\* and size >= 0, also for the categories no element was found of.
C4_SixKeysNonNegative ==
    Succeeded =>
        /\ DOMAIN TheAnalysis.breakdown = Categories
        /\ DOMAIN TheResults.resourceBreakdown = Categories
        /\ \A c \in Categories :
              /\ DOMAIN TheAnalysis.breakdown[c] = {"count", "size"}
              /\ TheAnalysis.breakdown[c].count >= 0
              /\ TheAnalysis.breakdown[c].size >= 0

\* C4 witness: the analysis of a document without elements, and so with no
\* element of any category.
C4_Witness ==
    /\ Succeeded
    /\ TheDoc = <<>>
    /\ \A c \in Categories \ {"document"} : TheAnalysis.breakdown[c].count = 0

\* C5: document.count is 1 and document.size is 0 in every breakdown: no rule
\* changes the tally of the document.
C5_DocumentTallyFixed ==
    Succeeded =>
        /\ TheAnalysis.breakdown["document"] = [count |-> 1, size |-> 0]
        /\ TheResults.resourceBreakdown["document"] = [count |-> 1, size |-> 0]

\* C5 witness: an analysis in which rules did tally elements.
C5_Witness ==
    /\ Succeeded
    /\ TheAnalysis.totalRequests = 1 + MaxElems
    /\ TheAnalysis.breakdown["document"].count = 1

\* the positions of the link elements of doc
LinkPositions(doc) == {i \in 1..Len(doc) : doc[i].tag = "link"}

WebFontHosts == {"fonts.googleapis.com", "fonts.google.com", "typekit.net"}

HasWebFontHost(e) ==
    e.tag = "link" /\ Truthy(e.href) /\ \E h \in WebFontHosts : Includes(e.href[1], h)

\* the link is one the direct font-link rule selects
IsDirectFontLink(e) ==
    \/ e.rel = Some("preload") /\ e.as = Some("font")
    \/ Includes(e.href[1], "font")

\* C6 as stated: a document whose one link has a web-font host in its href
\* has font.count 2 and font.size 120000, with or without "font" in the href.
C6_WebFontAddsTwoTimesSixty ==
    Succeeded =>
        \A i \in LinkPositions(TheDoc) :
            LinkPositions(TheDoc) = {i} /\ HasWebFontHost(TheDoc[i]) =>
                TheAnalysis.breakdown["font"] = [count |-> 2, size |-> 120000]

\* C6 as amended: for a document whose one link has a web-font host in its
\* href, the web-font rule adds 2 to font.count and 60000 to font.size, and
\* when the link is also one the direct font-link rule selects (rel=preload
\* as=font, or "font" in the href) that rule adds 1 and the size by the
\* extension of the href on top.
C6_WebFontAddsTwoAndSixty ==
    Succeeded =>
        \A i \in LinkPositions(TheDoc) :
            LinkPositions(TheDoc) = {i} /\ HasWebFontHost(TheDoc[i]) =>
                LET direct == IF IsDirectFontLink(TheDoc[i]) THEN 1 ELSE 0
                IN  TheAnalysis.breakdown["font"] =
                        [count |-> 2 + direct,
                         size  |-> 60000 + direct * estimateFontSize(TheDoc[i].href[1])]

\* C6 witness: the link of the Google Fonts stylesheet, which both font rules
\* select, was analysed.
C6_Witness ==
    /\ Succeeded
    /\ \E i \in LinkPositions(TheDoc) :
          /\ LinkPositions(TheDoc) = {i}
          /\ TheDoc[i].href = Some(GoogleFontsHref)
    /\ TheAnalysis.breakdown["font"] = [count |-> 3, size |-> 90000]

\* a size table: the size of the first entry one of whose texts s contains
RECURSIVE FirstMatch(_, _, _, _)
FirstMatch(table, i, default, s) ==
    IF i > Len(table) THEN default
    ELSE IF \E t \in table[i].texts : Includes(s, t) THEN table[i].size
    ELSE FirstMatch(table, i + 1, default, s)

ScriptSizeTable ==
    << [texts |-> {"react", "vue", "angular"}, size |-> 200000],
       [texts |-> {"jquery"},                  size |-> 85000],
       [texts |-> {"lodash", "moment"},        size |-> 70000],
       [texts |-> {".min.js"},                 size |-> 30000] >>

StylesheetSizeTable ==
    << [texts |-> {"bootstrap", "tailwind"},            size |-> 150000],
       [texts |-> {"font-awesome", "material-icons"},   size |-> 75000],
       [texts |-> {".min.css"},                         size |-> 25000] >>

\* the sum over the elements of doc from position i on of what Expected gives
RECURSIVE ExpectedTally(_, _, _)
ExpectedTally(doc, i, kind) ==
    IF i > Len(doc) THEN [count |-> 0, size |-> 0]
    ELSE LET e    == doc[i]
             rest == ExpectedTally(doc, i + 1, kind)
             hit  == IF kind = "script"
                     THEN e.tag = "script" /\ Truthy(e.src)
                     ELSE /\ e.tag = "link"
                          /\ \/ e.rel = Some("stylesheet")
                             \/ e.rel = Some("preload") /\ e.as = Some("style")
                          /\ Truthy(e.href)
             size == IF kind = "script"
                     THEN FirstMatch(ScriptSizeTable, 1, 50000, e.src[1])
                     ELSE FirstMatch(StylesheetSizeTable, 1, 40000, e.href[1])
         IN  IF hit THEN [count |-> rest.count + 1, size |-> rest.size + size]
             ELSE rest

NoInlineScript(doc) == \A i \in 1..Len(doc) : ~(doc[i].tag = "script" /\ doc[i].src = None)

NoInlineStyle(doc) == \A i \in 1..Len(doc) : doc[i].tag # "style"

ScriptPositions(doc) == {i \in 1..Len(doc) : doc[i].tag = "script"}

\* C7: the size of a script with a src is that of the first entry of the
\* table react/vue/angular 200000, jquery 85000, lodash/moment 70000, .min.js
\* 30000 that the src contains, else 50000; a src with "jquery" and ".min.js"
\* and no framework name gets 85000.
C7_ScriptSizePriority ==
    Succeeded /\ NoInlineScript(TheDoc) =>
        /\ TheAnalysis.breakdown["script"] = ExpectedTally(TheDoc, 1, "script")
        /\ \A i \in ScriptPositions(TheDoc) :
              LET src == TheDoc[i].src[1]
              IN  /\ ScriptPositions(TheDoc) = {i}
                  /\ Includes(src, "jquery") /\ Includes(src, ".min.js")
                  /\ ~Includes(src, "react") /\ ~Includes(src, "vue")
                  /\ ~Includes(src, "angular")
                  => TheAnalysis.breakdown["script"] = [count |-> 1, size |-> 85000]

\* C7 witness: one script whose src holds "jquery" and ".min.js" was sized.
C7_Witness ==
    /\ Succeeded
    /\ \E i \in ScriptPositions(TheDoc) :
          /\ ScriptPositions(TheDoc) = {i}
          /\ TheDoc[i].src = Some("lodash/jquery.min.js")
    /\ TheAnalysis.breakdown["script"] = [count |-> 1, size |-> 85000]

\* C8: every stylesheet link (rel=stylesheet, or rel=preload with as=style)
\* with a non-empty href adds 1 to stylesheet.count and the size of the first
\* entry of the table bootstrap/tailwind 150000, font-awesome/material-icons
\* 75000, .min.css 25000 that the href contains, else 40000; the one link
\* href="app.min.css" gives count 1 and size 25000.
C8_StylesheetLinkSize ==
    Succeeded /\ NoInlineStyle(TheDoc) =>
        /\ TheAnalysis.breakdown["stylesheet"] = ExpectedTally(TheDoc, 1, "stylesheet")
        /\ TheDoc = <<Link(Some("stylesheet"), None, Some("app.min.css"))>> =>
              TheAnalysis.breakdown["stylesheet"] = [count |-> 1, size |-> 25000]

\* C8 witness: the document of the one link href="app.min.css" was analysed.
C8_Witness ==
    /\ Succeeded
    /\ TheDoc = <<Link(Some("stylesheet"), None, Some("app.min.css"))>>
    /\ TheAnalysis.breakdown["stylesheet"] = [count |-> 1, size |-> 25000]

\* the element with its href and src in lower case
LowerIdentifiers(e) ==
    [e EXCEPT !.href = IF e.href = None THEN None ELSE Some(toLowerCase(e.href[1])),
              !.src  = IF e.src = None THEN None ELSE Some(toLowerCase(e.src[1]))]

\* C9: the size heuristics of stylesheet href, script src and other href/src
\* do not tell letter case apart: an element gets the size that the element
\* with the same identifier in lower case gets.
C9_SizesIgnoreLetterCase ==
    Succeeded /\ Len(TheDoc) = 1 =>
        LET lower == analyzeResourcesWithCheerio(<<LowerIdentifiers(TheDoc[1])>>)
        IN  \A c \in {"stylesheet", "script", "other"} :
                TheAnalysis.breakdown[c].size = lower.breakdown[c].size

\* one of the selectors of the rules matches the element
Matched(e) ==
    \/ IsCssLink(e) \/ IsInlineStyle(e) \/ IsScriptTag(e) \/ IsInlineScript(e)
    \/ IsImage(e) \/ IsFontLink(e) \/ IsWebFontCSS(e) \/ IsOtherResource(e)

\* the element carries no URL and no content: no non-empty href, src or
\* srcset, no style with a background image, no text
LacksUrlAndContent(e) ==
    /\ ~Truthy(e.href) /\ ~Truthy(e.src) /\ ~Truthy(e.srcset)
    /\ e.style = None \/ ~Includes(toLowerCase(e.style[1]), "background-image")
    /\ e.text = <<>>

Remove(doc, i) == SubSeq(doc, 1, i - 1) \o SubSeq(doc, i + 1, Len(doc))

\* C10: an element that a rule matches but that carries no URL and no content
\* changes nothing: the breakdown, the request count and the running total are
\* those of the document without the element.
C10_EmptyElementAddsNothing ==
    Succeeded =>
        \A i \in 1..Len(TheDoc) :
            Matched(TheDoc[i]) /\ LacksUrlAndContent(TheDoc[i]) =>
                TheAnalysis = analyzeResourcesWithCheerio(Remove(TheDoc, i))

\* C10 witness: an img without src, srcset and style was analysed next to an
\* image that counts.
C10_Witness ==
    /\ Succeeded
    /\ \E i \in 1..Len(TheDoc) : TheDoc[i] = Img(None, None, None)
    /\ TheAnalysis.breakdown["image"].count = 1

(***************************************************************************)
(* Properties of the requests in flight at once.                            *)
(***************************************************************************)
FlightSucceeded(p) == flight[p].pc = "done" /\ flight[p].response.status = 200

\* what one call of the estimator returns for doc when nothing else runs:
\* the rules applied to doc from a breakdown of document 1 and zeros
AnalysisAlone(doc) ==
    LET zero == [count |-> 0, size |-> 0]
        st   == RunRules(doc, 1,
                    [breakdown |-> [document |-> [count |-> 1, size |-> 0],
                                    stylesheet |-> zero, script |-> zero,
                                    image |-> zero, font |-> zero, other |-> zero],
                     totalEstimatedSize |-> 0])
    IN  [breakdown          |-> st.breakdown,
         totalRequests      |-> SumOfCounts(st.breakdown),
         totalEstimatedSize |-> st.totalEstimatedSize]

Analysed == pc = "done" /\ html # NoHtml

\* C13: the estimator never raises: whenever it was called, on elements with
\* missing attributes, empty strings or identifiers no rule knows, it
\* returned an analysis and the handler answered 200, never the 500 of the
\* catch block.
C13_EstimatorNeverRaises ==
    Analysed => /\ resourceAnalysis # None
                /\ response.status = 200
                /\ ~AnalysisRaises(html.doc)

\* C13 witness: the estimator returned for an image without any attribute
\* followed by a stylesheet link with an empty href, and counted neither.
C13_Witness ==
    /\ Analysed
    /\ html.doc = <<Img(None, None, None), Link(Some("stylesheet"), None, Some(""))>>
    /\ response.status = 200
    /\ resourceAnalysis[1].totalRequests = 1

(***************************************************************************)
(* The handlers that drive a headless browser: POST of the app route and    *)
(* handler of the pages route.  An invocation gives way where it awaits:    *)
(* puppeteer.launch, browser.newPage, page.goto and browser.close.  The     *)
(* listener of page.on("response") runs whenever the browser reports a      *)
(* response while the invocation awaits page.goto or browser.close.         *)
(***************************************************************************)
Routes == {"app", "pages"}

\* the requests a route hands to its handler: the app route calls POST for
\* POST requests only, the pages route calls handler for every method and
\* with the body already parsed
BrowserRequests(route) ==
    IF route = "app"
    THEN { [method |-> "POST", json |-> FALSE, url |-> None],
           [method |-> "POST", json |-> TRUE, url |-> None],
           [method |-> "POST", json |-> TRUE, url |-> Some("")],
           [method |-> "POST", json |-> TRUE, url |-> Some("not a url")],
           [method |-> "POST", json |-> TRUE, url |-> Some("https://example.com/")] }
    ELSE { [method |-> "GET", json |-> TRUE, url |-> Some("https://example.com/")],
           [method |-> "POST", json |-> TRUE, url |-> None],
           [method |-> "POST", json |-> TRUE, url |-> Some("")],
           [method |-> "POST", json |-> TRUE, url |-> Some("not a url")],
           [method |-> "POST", json |-> TRUE, url |-> Some("https://example.com/")] }

\* request.resourceType() of the responses of the model
ResourceTypes == {"document", "image", "xhr"}

\* response.headers()["content-length"] of the responses of the model
ContentLengths == {None, Some(""), Some("512")}

Digits == "0123456789"

DigitValue(c) == CHOOSE d \in 0..9 : CharAt(Digits, d + 1) = c

\* parseInt(text) of a text of decimal digits
RECURSIVE parseInt(_)
parseInt(text) ==
    IF Len(text) = 0 THEN 0
    ELSE 10 * parseInt(SubSeq(text, 1, Len(text) - 1))
            + DigitValue(CharAt(text, Len(text)))

\* the invocation answers
Answer(h, status, error) ==
    [h EXCEPT !.pc = "done", !.response = ErrorResponse(status, error)]

\* mutant: the browser is launched for every url that is not empty
HandlerEntryWithoutURLCheck(route, req) ==
    LET h == [IdlePup EXCEPT !.route = route]
    IN  IF route = "pages" /\ req.method # "POST"
        THEN Answer(h, 405, "Method not allowed")
        ELSE IF route = "app" /\ ~req.json
        THEN Answer(h, 400, "Invalid request body")
        ELSE IF ~Truthy(req.url)
        THEN Answer([h EXCEPT !.url = req.url], 400, "URL is required")
        ELSE [h EXCEPT !.url = req.url, !.pc = "launch"]

\* the handler from its entry to its first await or its early return
HandlerEntry(route, req) ==
    LET h == [IdlePup EXCEPT !.route = route]
    IN  IF route = "pages" /\ req.method # "POST"
        THEN Answer(h, 405, "Method not allowed")
        ELSE IF route = "app" /\ ~req.json
        THEN Answer(h, 400, "Invalid request body")
        ELSE IF ~Truthy(req.url)
        THEN Answer([h EXCEPT !.url = req.url], 400, "URL is required")
        ELSE IF ~URLParses(req.url[1])
        THEN Answer([h EXCEPT !.url = req.url], 400, "Invalid URL format")
        ELSE [h EXCEPT !.url = req.url, !.pc = "launch"]

\* mutant: a response of a type that is no key of resourceBreakdown is
\* recorded but not tallied
OnResponseSkipsOther(h, resourceType, contentLength) ==
    LET size == IF Truthy(contentLength) THEN parseInt(contentLength[1]) ELSE 0
    IN  IF resourceType \in DOMAIN h.resourceBreakdown
        THEN [h EXCEPT !.requests = Append(@, [size |-> size, resourceType |-> resourceType]),
                       !.resourceBreakdown[resourceType].count = @ + 1,
                       !.resourceBreakdown[resourceType].size = @ + size]
        ELSE [h EXCEPT !.requests = Append(@, [size |-> size, resourceType |-> resourceType])]

\* the listener of page.on("response") on one response
OnResponse(h, resourceType, contentLength) ==
    LET size == IF Truthy(contentLength) THEN parseInt(contentLength[1]) ELSE 0
        cat  == IF resourceType \in DOMAIN h.resourceBreakdown
                THEN resourceType ELSE "other"
    IN  [h EXCEPT !.requests = Append(@, [size |-> size, resourceType |-> resourceType]),
                  !.resourceBreakdown[cat].count = @ + 1,
                  !.resourceBreakdown[cat].size = @ + size]

\* requests.reduce((sum, request) => sum + request.size, 0)
RECURSIVE totalSizeOf(_)
totalSizeOf(requests) ==
    IF requests = <<>> THEN 0
    ELSE totalSizeOf(SubSeq(requests, 1, Len(requests) - 1))
            + requests[Len(requests)].size

\* const results = {...}: pageSize and requestCount are numbers computed
\* here; resourceBreakdown is the object the listener writes to, and is read
\* when the response is written
ResultsNow(h) ==
    [url |-> h.url[1], pageSize |-> totalSizeOf(h.requests),
     requestCount |-> Len(h.requests)]

\* the body that is written from results
Body(h) ==
    [url               |-> h.results[1].url,
     pageSize          |-> h.results[1].pageSize,
     requestCount      |-> h.results[1].requestCount,
     resourceBreakdown |-> h.resourceBreakdown]

PupRequest(route, req) ==
    /\ pup.pc \in {"idle", "done"}
    /\ pup' = HandlerEntry(route, req)
    /\ UNCHANGED <<pc, url, html, resourceAnalysis, response, flight, form>>

\* await puppeteer.launch(...) settles
LaunchSettles(ok) ==
    /\ pup.pc = "launch"
    /\ pup' = IF ok
              THEN [pup EXCEPT !.browser = "open", !.pc = "newPage"]
              ELSE Answer(pup, 500, FailedToAnalyze)
    /\ UNCHANGED <<pc, url, html, resourceAnalysis, response, flight, form>>

\* await browser.newPage() settles; then requests, resourceBreakdown and the
\* listener are set up and page.goto starts
NewPageSettles(ok) ==
    /\ pup.pc = "newPage"
    /\ pup' = IF ok
              THEN [pup EXCEPT !.requests = <<>>, !.resourceBreakdown = ZeroBreakdown,
                               !.listening = TRUE, !.pc = "goto"]
              ELSE [pup EXCEPT !.pc = "closeAfterError"]
    /\ UNCHANGED <<pc, url, html, resourceAnalysis, response, flight, form>>

\* the browser reports a response while the invocation awaits
ResponseEvent(resourceType, contentLength) ==
    /\ pup.listening
    /\ pup.browser = "open"
    /\ pup.pc \in {"goto", "close", "closeAfterError"}
    /\ Len(pup.requests) < MaxResponses
    /\ pup' = OnResponse(pup, resourceType, contentLength)
    /\ UNCHANGED <<pc, url, html, resourceAnalysis, response, flight, form>>

\* mutant: the catch block answers without closing the browser
GotoSettlesCatchWithoutClose(outcome) ==
    /\ pup.pc = "goto"
    /\ pup' = IF outcome = "ok"
              THEN [pup EXCEPT !.results = Some(ResultsNow(pup)), !.pc = "close"]
              ELSE Answer(pup, 500, FailedToAnalyze)
    /\ UNCHANGED <<pc, url, html, resourceAnalysis, response, flight, form>>

\* await page.goto(...) settles: the page is idle, or the navigation failed
\* or ran into the timeout
GotoSettles(outcome) ==
    /\ pup.pc = "goto"
    /\ pup' = IF outcome = "ok"
              THEN [pup EXCEPT !.results = Some(ResultsNow(pup)), !.pc = "close"]
              ELSE [pup EXCEPT !.pc = "closeAfterError"]
    /\ UNCHANGED <<pc, url, html, resourceAnalysis, response, flight, form>>

\* await browser.close() resolves, and the response is written
CloseSettles ==
    /\ pup.pc \in {"close", "closeAfterError"}
    /\ pup' = IF pup.pc = "close"
              THEN [pup EXCEPT !.browser = "closed", !.pc = "done",
                               !.response = [status |-> 200, error |-> "",
                                             results |-> Some(Body(pup))]]
              ELSE Answer([pup EXCEPT !.browser = "closed"], 500, FailedToAnalyze)
    /\ UNCHANGED <<pc, url, html, resourceAnalysis, response, flight, form>>

NextBrowser ==
    \/ \E route \in Routes : \E req \in BrowserRequests(route) : PupRequest(route, req)
    \/ \E ok \in BOOLEAN : LaunchSettles(ok)
    \/ \E ok \in BOOLEAN : NewPageSettles(ok)
    \/ \E t \in ResourceTypes, l \in ContentLengths : ResponseEvent(t, l)
    \/ \E outcome \in {"ok", "error", "timeout"} : GotoSettles(outcome)
    \/ CloseSettles

SpecBrowser == Init /\ [][NextBrowser]_vars

\* every promise the handler awaits settles: launch, newPage and close by the
\* browser, page.goto at the latest by its timeout of 30 seconds
SpecBrowserFair ==
    /\ Init
    /\ [][NextBrowser]_vars
    /\ WF_vars(\E ok \in BOOLEAN : LaunchSettles(ok))
    /\ WF_vars(\E ok \in BOOLEAN : NewPageSettles(ok))
    /\ WF_vars(\E outcome \in {"ok", "error", "timeout"} : GotoSettles(outcome))
    /\ WF_vars(CloseSettles)

(***************************************************************************)
(* The static route and the browser routes of one server.                   *)
(***************************************************************************)
RouteDocuments == {<<>>, <<Script(Some("app.min.js"), <<>>)>>}

NextRoutes ==
    \/ \E req \in Requests : Post(req)
    \/ \E outcome \in {"ok", "notOk", "rejected"} : FetchSettles(outcome)
    \/ TextResolvesFrom(RouteDocuments)
    \/ TextRejects
    \/ \E route \in Routes : \E req \in BrowserRequests(route) : PupRequest(route, req)
    \/ \E ok \in BOOLEAN : LaunchSettles(ok)
    \/ \E ok \in BOOLEAN : NewPageSettles(ok)
    \/ ResponseEvent("document", Some("512"))
    \/ \E outcome \in {"ok", "error", "timeout"} : GotoSettles(outcome)
    \/ CloseSettles

SpecRoutes == Init /\ [][NextRoutes]_vars

\* the request was read and holds no url, or an empty one
LacksUrl(req) == req.json /\ req.url \in {None, Some("")}

\* the request was read and holds a url that new URL(url) rejects
HasBadUrl(req) == req.json /\ req.url \in {Some("not a url"), Some("http://")}

\* C14, static handler: a request without url is answered 400 "URL is
\* required" and one with an unparseable url 400 "Invalid URL format", in the
\* step that reads it, so that no fetch is started.
StaticRejectsAtEntry ==
    \A req \in Requests :
        pc \in {"idle", "done"} /\ pup' = pup /\ Post(req) =>
            /\ LacksUrl(req) => /\ response' = ErrorResponse(400, "URL is required")
                                /\ pc' = "done"
            /\ HasBadUrl(req) => /\ response' = ErrorResponse(400, "Invalid URL format")
                                 /\ pc' = "done"

\* C14, browser handlers: the same answers, in the step that reads the
\* request, so that no browser is launched.
BrowserRejectsAtEntry ==
    \A route \in Routes : \A req \in BrowserRequests(route) :
        pup.pc \in {"idle", "done"} /\ pup' # pup /\ req.method = "POST"
            /\ PupRequest(route, req) =>
            /\ LacksUrl(req) => /\ pup'.response = ErrorResponse(400, "URL is required")
                                /\ pup'.pc = "done" /\ pup'.browser = "none"
            /\ HasBadUrl(req) => /\ pup'.response = ErrorResponse(400, "Invalid URL format")
                                 /\ pup'.pc = "done" /\ pup'.browser = "none"

\* C14, upstream: a fetch that rejects or is not OK, and a navigation that
\* fails, end in status 500 with an error and no metrics.
UpstreamFailureIs500 ==
    /\ \A outcome \in {"notOk", "rejected"} :
          FetchSettles(outcome) =>
              /\ response'.status = 500 /\ response'.error # ""
              /\ response'.results = None /\ pc' = "done"
    /\ \A outcome \in {"error", "timeout"} :
          GotoSettles(outcome) => pup'.pc = "closeAfterError" /\ pup'.results = None
    /\ CloseSettles /\ pup.pc = "closeAfterError" =>
          /\ pup'.response.status = 500 /\ pup'.response.error # ""
          /\ pup'.response.results = None /\ pup'.pc = "done"

C19_BodySelfConsistent ==
    pup.response.status = 200 =>
        LET body == pup.response.results[1]
        IN  /\ body.requestCount = SumOfCounts(body.resourceBreakdown)
            /\ body.pageSize = SumOfSizes(body.resourceBreakdown)

\* the handler is between its first await and its response
Running == pup.pc \in {"launch", "newPage", "goto", "close", "closeAfterError"}

UrlPlain == "background-image: url(c.gif)"

UrlSingleQuoted == "background-image:url('e.png')"

UrlDoubleQuoted == "background-image: url(\"g.svg\")"

RuleImagePool ==
    { Img(Some("a.png"), None, None),
      Img(None, Some("b.JPG"), None),
      Img(Some("c.svg"), Some("x.gif"), None),
      Img(Some(""), Some("d.webp"), None),
      Img(Some("e.jpeg?v=2"), None, None),
      Img(None, None, None),
      Styled("div", UrlPlain),
      Img(Some(""), None, Some(UrlSingleQuoted)),
      Styled("section", UrlDoubleQuoted) }

RuleFontPool ==
    { Link(Some("preload"), Some("font"), Some("/fonts/x.woff2")),
      Link(Some("preload"), Some("font"), Some("/f/inter.woff")),
      Link(None, None, Some("font.ttf")),
      Link(None, None, Some(GoogleFontsHref)),
      Link(None, None, Some("//use.typekit.net/a.css")),
      Link(Some("preload"), Some("font"), Some("")) }

RuleInlinePool ==
    { Script(None, <<97, 61, 49>>),
      Script(None, <<32, 10>>),
      Script(None, <<>>),
      Script(None, <<233, 8364>>),
      Style(<<233, 8364>>),
      Style(<<32>>),
      Style(<<>>) }

RulePool == RuleImagePool \cup RuleFontPool \cup RuleInlinePool

RuleDocuments == SeqsUpTo(RulePool, MaxRuleElems)

NextRules ==
    \/ \E req \in Requests : Post(req)
    \/ \E outcome \in {"ok", "notOk", "rejected"} : FetchSettles(outcome)
    \/ TextResolvesFrom(RuleDocuments)
    \/ TextRejects

SpecRules == Init /\ [][NextRules]_vars

(***************************************************************************)
(* Properties of the image, font and inline rules.                          *)
(***************************************************************************)
EndsWith(s, t) == Len(s) >= Len(t) /\ SubSeq(s, Len(s) - Len(t) + 1, Len(s)) = t

\* a size table by extension: the size of the first entry one of whose
\* extensions ends the lowercased identifier
RECURSIVE ByExtension(_, _, _, _)
ByExtension(table, i, default, s) ==
    IF i > Len(table) THEN default
    ELSE IF \E x \in table[i].exts : EndsWith(toLowerCase(s), "." \o x)
    THEN table[i].size
    ELSE ByExtension(table, i + 1, default, s)

ImageSizeTable ==
    << [exts |-> {"svg"},         size |-> 5000],
       [exts |-> {"png"},         size |-> 80000],
       [exts |-> {"jpg", "jpeg"}, size |-> 60000],
       [exts |-> {"webp"},        size |-> 40000],
       [exts |-> {"gif"},         size |-> 100000] >>

FontSizeTable ==
    << [exts |-> {"woff2"}, size |-> 25000],
       [exts |-> {"woff"},  size |-> 35000],
       [exts |-> {"ttf"},   size |-> 60000] >>

\* the URL token of the style values of the three forms url(X), url('X') and
\* url("X")
UrlTokenOf(style) ==
    IF style = Some(UrlPlain) THEN Some("c.gif")
    ELSE IF style = Some(UrlSingleQuoted) THEN Some("e.png")
    ELSE IF style = Some(UrlDoubleQuoted) THEN Some("g.svg")
    ELSE None

\* the element is an image candidate
IsImageCandidate(e) ==
    \/ e.tag = "img"
    \/ e.tag = "source" /\ "picture" \in e.inside
    \/ Truthy(e.style) /\ Includes(e.style[1], "background-image")

\* src if not empty, else srcset, else the URL token of the style
SourceByPriority(e) ==
    IF Truthy(e.src) THEN e.src
    ELSE IF Truthy(e.srcset) THEN e.srcset
    ELSE UrlTokenOf(e.style)

\* the sum over the image candidates of doc from position i on: 1 and the
\* size by the extension of the source, for every candidate with a source
RECURSIVE ExpectedImages(_, _)
ExpectedImages(doc, i) ==
    IF i > Len(doc) THEN [count |-> 0, size |-> 0]
    ELSE LET e    == doc[i]
             rest == ExpectedImages(doc, i + 1)
         IN  IF IsImageCandidate(e) /\ Truthy(SourceByPriority(e))
             THEN [count |-> rest.count + 1,
                   size  |-> rest.size
                                + ByExtension(ImageSizeTable, 1, 75000,
                                              SourceByPriority(e)[1])]
             ELSE rest

\* C15: every image candidate (img, picture source, element with a
\* background-image style) takes its source from src if not empty, else from
\* srcset, else from the URL of the style, and adds 1 to image.count and the
\* size of the lowercased extension of the source (svg 5000, png 80000,
\* jpg/jpeg 60000, webp 40000, gif 100000, else 75000) to image.size.
C15_ImageSourcePriority ==
    Succeeded => TheAnalysis.breakdown["image"] = ExpectedImages(TheDoc, 1)

\* C16: an element whose style is background-image: url(X), url('X') or
\* url("X") and that has no src and no srcset counts as one image of the size
\* of the extension of X, and extractBackgroundImage gives null for a missing
\* style and for a style without such a declaration.
C16_ExtractsUrlToken ==
    /\ extractBackgroundImage(None) = None
    /\ extractBackgroundImage(Some("color: red")) = None
    /\ Succeeded =>
          \A i \in 1..Len(TheDoc) :
              /\ Len(TheDoc) = 1
              /\ UrlTokenOf(TheDoc[i].style) # None
              /\ ~Truthy(TheDoc[i].src) /\ ~Truthy(TheDoc[i].srcset)
              => TheAnalysis.breakdown["image"] =
                    [count |-> 1,
                     size  |-> ByExtension(ImageSizeTable, 1, 75000,
                                           UrlTokenOf(TheDoc[i].style)[1])]

\* the sum over the links of doc from position i on: 1 and the size by the
\* extension of the href for a link the direct rule selects, and 2 and 60000
\* for a link with a web-font host
RECURSIVE ExpectedFonts(_, _)
ExpectedFonts(doc, i) ==
    IF i > Len(doc) THEN [count |-> 0, size |-> 0]
    ELSE LET e      == doc[i]
             rest   == ExpectedFonts(doc, i + 1)
             direct == IF e.tag = "link" /\ Truthy(e.href) /\ IsDirectFontLink(e)
                       THEN 1 ELSE 0
             host   == IF HasWebFontHost(e) THEN 1 ELSE 0
         IN  [count |-> rest.count + direct + 2 * host,
              size  |-> rest.size + 60000 * host
                           + (IF direct = 1
                              THEN ByExtension(FontSizeTable, 1, 30000, e.href[1])
                              ELSE 0)]

\* C17: the web-font rule adds to what the direct font-link rule adds: a link
\* both rules select is tallied by both, the direct rule adding 1 entry of
\* the size of the extension (woff2 25000, woff 35000, ttf 60000, else 30000)
\* and the web-font rule its entries on top; a link that matches both
\* alternatives of the direct selector is tallied by the direct rule once.
C17_FontRulesAdditive ==
    Succeeded =>
        /\ TheAnalysis.breakdown["font"] = ExpectedFonts(TheDoc, 1)
        /\ TheDoc = <<Link(Some("preload"), Some("font"), Some("/fonts/x.woff2"))>> =>
              TheAnalysis.breakdown["font"] = [count |-> 1, size |-> 25000]

\* C17 witness: a link that matches both alternatives of the direct selector
\* and the link of the Google Fonts stylesheet, which both rules select, were
\* analysed together.
C17_Witness ==
    /\ Succeeded
    /\ TheDoc = << Link(Some("preload"), Some("font"), Some("/fonts/x.woff2")),
                   Link(None, None, Some(GoogleFontsHref)) >>
    /\ TheAnalysis.breakdown["font"] = [count |-> 4, size |-> 115000]

\* the text is empty or holds white space only
IsBlank(text) == \A i \in 1..Len(text) : text[i] \in {9, 10, 13, 32}

\* the sum over the inline blocks of doc from position i on: 1 and the UTF-8
\* length of the content, for every inline script that is not blank and every
\* inline style that is not empty
RECURSIVE ExpectedInline(_, _, _)
ExpectedInline(doc, i, tag) ==
    IF i > Len(doc) THEN [count |-> 0, size |-> 0]
    ELSE LET e    == doc[i]
             rest == ExpectedInline(doc, i + 1, tag)
             hit  == /\ e.tag = tag
                     /\ IF tag = "script" THEN e.src = None /\ ~IsBlank(e.text)
                                          ELSE e.text # <<>>
         IN  IF hit THEN [count |-> rest.count + 1,
                          size  |-> rest.size + byteLength(e.text)]
             ELSE rest

\* the document has no script with a src and no stylesheet link
InlineOnly(doc) ==
    \A i \in 1..Len(doc) :
        /\ doc[i].tag = "script" => doc[i].src = None
        /\ doc[i].tag = "link" =>
              ~(doc[i].rel = Some("stylesheet")
                   \/ (doc[i].rel = Some("preload") /\ doc[i].as = Some("style")))

\* C18: an inline script counts only when its body is neither empty nor white
\* space only, an inline style only when its content is not empty; each
\* counted block adds 1 to the count of its category and the UTF-8 byte
\* length of its content to the size of the category and to the total.
C18_InlineBlocksByByteLength ==
    Succeeded /\ InlineOnly(TheDoc) =>
        /\ TheAnalysis.breakdown["script"] = ExpectedInline(TheDoc, 1, "script")
        /\ TheAnalysis.breakdown["stylesheet"] = ExpectedInline(TheDoc, 1, "style")
        /\ TheAnalysis.totalEstimatedSize = SumOfSizes(TheAnalysis.breakdown)
        /\ TheDoc = <<Style(<<233, 8364>>), Script(None, <<32, 10>>)>> =>
              /\ TheAnalysis.breakdown["stylesheet"] = [count |-> 1, size |-> 5]
              /\ TheAnalysis.breakdown["script"] = [count |-> 0, size |-> 0]

\* C18 witness: a script of white space was skipped after a style of two
\* characters that take five bytes was counted.
C18_Witness ==
    /\ Succeeded
    /\ TheDoc = <<Style(<<233, 8364>>), Script(None, <<32, 10>>)>>
    /\ TheAnalysis.breakdown["stylesheet"].size = 5
    /\ TheAnalysis.totalEstimatedSize = 5

(***************************************************************************)
(* Properties of the listener of the response events.                       *)
(***************************************************************************)
\* the category a response of the resource type belongs to
CategoryOf(resourceType) ==
    IF resourceType \in {"document", "stylesheet", "script", "image", "font", "other"}
    THEN resourceType
    ELSE "other"

\* the recorded requests of the category, as positions of the list
RequestsOf(requests, c) ==
    {i \in 1..Len(requests) : CategoryOf(requests[i].resourceType) = c}

\* the sum of the sizes of the recorded requests at the positions
RECURSIVE SizeAt(_, _)
SizeAt(requests, positions) ==
    IF positions = {} THEN 0
    ELSE LET i == CHOOSE j \in positions : TRUE
         IN  requests[i].size + SizeAt(requests, positions \ {i})

\* C21: after every sequence of response events each response is tallied
\* once, in the category of its resource type when that is one of the six
\* and in other otherwise; so the requests list is as long as the six counts
\* add up to, and the recorded sizes add up to the sum of the six sizes.
C21_EachResponseTalliedOnce ==
    /\ \A c \in DOMAIN pup.resourceBreakdown :
          /\ pup.resourceBreakdown[c].count = Cardinality(RequestsOf(pup.requests, c))
          /\ pup.resourceBreakdown[c].size = SizeAt(pup.requests, RequestsOf(pup.requests, c))
    /\ Len(pup.requests) = SumOfCounts(pup.resourceBreakdown)
    /\ SizeAt(pup.requests, 1..Len(pup.requests)) = SumOfSizes(pup.resourceBreakdown)

\* C21 witness: a response of a type outside the six and a document response
\* with a content length were recorded.
C21_Witness ==
    /\ Len(pup.requests) = 2
    /\ pup.requests[1] = [size |-> 0, resourceType |-> "xhr"]
    /\ pup.requests[2] = [size |-> 512, resourceType |-> "document"]
    /\ pup.resourceBreakdown["other"] = [count |-> 1, size |-> 0]
    /\ pup.resourceBreakdown["document"] = [count |-> 1, size |-> 512]

(***************************************************************************)
(* The page of the form, in its two versions: Home of app/page.tsx keeps    *)
(* loading, results and error in component state ("state"); the other Home  *)
(* takes isPending, data and error from useMutation ("mutation").  The      *)
(* fields loading, results and error of the model stand for both.  A        *)
(* request of the form awaits twice: the fetch, then the JSON of the body.   *)
(***************************************************************************)
Pages == {"state", "mutation"}

\* what the user types into the input
FormUrls == {"", "https://example.com/", "https://example.org/", "http://localhost:3000/"}

\* the bodies the API sends: results with status 200, an object with or
\* without an error text otherwise
ApiBodies(ok, u) ==
    IF ok
    THEN {[error |-> "", results |-> Some([url |-> u, requestCount |-> n])] : n \in {1, 4}}
    ELSE {[error |-> e, results |-> None] : e \in {"", "Invalid URL format", FailedToAnalyze}}

\* mutant: the button is never disabled
SubmitNeverDisabled(f) == FALSE

\* the button is rendered with disabled={loading} (disabled={isPending})
SubmitDisabled(f) == f.loading

\* a new request: fetch("/api/analyze", ...) is called with the url
Sent(f) == Append(f.inflight, [url |-> f.url, phase |-> "fetch", ok |-> FALSE])

\* analyzeUrl of app/page.tsx up to its first await
analyzeUrlState(f) ==
    IF f.url = "" THEN f
    ELSE [f EXCEPT !.loading = TRUE, !.error = "", !.results = None,
                   !.inflight = Sent(f)]

\* analyzeUrl of the version with useMutation: setError(""), reset(), and
\* setError("URL is required") or mutate(url)
analyzeUrlMutation(f) ==
    LET g == [f EXCEPT !.urlError = "", !.results = None, !.error = "",
                       !.loading = FALSE, !.observing = FALSE]
    IN  IF f.url = ""
        THEN [g EXCEPT !.urlError = "URL is required"]
        ELSE [g EXCEPT !.loading = TRUE, !.observing = TRUE, !.inflight = Sent(f)]

analyzeUrl(f) ==
    IF f.page = "state" THEN analyzeUrlState(f) ELSE analyzeUrlMutation(f)

\* the list without its element i
Without(list, i) == SubSeq(list, 1, i - 1) \o SubSeq(list, i + 1, Len(list))

\* request i settles with results, or with the message of what was thrown:
\* setResults(data) or setError(err.message), then setLoading(false); the
\* mutation observer takes the outcome of the mutation it observes only
Settled(f, i, results, message) ==
    LET g == [f EXCEPT !.inflight = Without(f.inflight, i)]
    IN  IF f.page = "mutation" /\ ~(f.observing /\ i = Len(f.inflight))
        THEN g
        ELSE IF results # None
        THEN [g EXCEPT !.results = results, !.loading = FALSE]
        ELSE [g EXCEPT !.error = message, !.loading = FALSE]

\* the page is opened: useState("") / useState(false) / useState(null)
Mount(page) ==
    /\ form.page = "none"
    /\ form' = [NoForm EXCEPT !.page = page]
    /\ UNCHANGED <<pc, url, html, resourceAnalysis, response, flight, pup>>

\* onChange of the input
SetUrl(u) ==
    /\ form.page # "none"
    /\ form.url # u
    /\ form' = [form EXCEPT !.url = u]
    /\ UNCHANGED <<pc, url, html, resourceAnalysis, response, flight, pup>>

\* the form is submitted, which a disabled button does not allow
Submit ==
    /\ form.page # "none"
    /\ ~SubmitDisabled(form)
    /\ Len(form.inflight) < MaxInFlight
    /\ form' = analyzeUrl(form)
    /\ UNCHANGED <<pc, url, html, resourceAnalysis, response, flight, pup>>

\* await fetch(...) settles for request i
FormFetchSettles(i, outcome) ==
    /\ i \in 1..Len(form.inflight)
    /\ form.inflight[i].phase = "fetch"
    /\ form' = IF outcome = "rejected"
               THEN Settled(form, i, None, "Failed to fetch")
               ELSE [form EXCEPT !.inflight[i].phase = "json",
                                 !.inflight[i].ok = (outcome = "ok")]
    /\ UNCHANGED <<pc, url, html, resourceAnalysis, response, flight, pup>>

\* await response.json() resolves for request i with a body of the API
FormJsonResolves(i) ==
    /\ i \in 1..Len(form.inflight)
    /\ form.inflight[i].phase = "json"
    /\ \E data \in ApiBodies(form.inflight[i].ok, form.inflight[i].url) :
          form' = IF form.inflight[i].ok
                  THEN Settled(form, i, data.results, "")
                  ELSE Settled(form, i, None,
                               IF data.error # "" THEN data.error
                               ELSE "Failed to analyze URL")
    /\ UNCHANGED <<pc, url, html, resourceAnalysis, response, flight, pup>>

\* await response.json() rejects for request i: the body is no JSON
FormJsonRejects(i) ==
    /\ i \in 1..Len(form.inflight)
    /\ form.inflight[i].phase = "json"
    /\ form' = Settled(form, i, None, "Unexpected end of JSON input")
    /\ UNCHANGED <<pc, url, html, resourceAnalysis, response, flight, pup>>

NextForm ==
    \/ \E page \in Pages : Mount(page)
    \/ \E u \in FormUrls : SetUrl(u)
    \/ Submit
    \/ \E i \in 1..MaxInFlight, outcome \in {"ok", "notOk", "rejected"} :
          FormFetchSettles(i, outcome)
    \/ \E i \in 1..MaxInFlight : FormJsonResolves(i)
    \/ \E i \in 1..MaxInFlight : FormJsonRejects(i)

SpecForm == Init /\ [][NextForm]_vars

(***************************************************************************)
(* Properties of the form.                                                  *)
(***************************************************************************)
ResultSet == form.results # None

ErrorSet == form.error # "" \/ form.urlError # ""

\* C22: whatever the user submits and the API answers, the form never holds
\* a result and an error at once: a submit that sends a request has cleared
\* both, a request that settles sets exactly one of them and clears the
\* pending flag, and no request is started while one is pending.
C22_ResultOrErrorNeverBoth ==
    /\ [](~(ResultSet /\ ErrorSet))
    /\ [](form.loading => ~ResultSet /\ ~ErrorSet /\ Len(form.inflight) = 1)
    /\ [](Len(form.inflight) <= 1)
    /\ [](form.inflight = <<>> => ~form.loading)
    /\ [][Len(form.inflight') > Len(form.inflight) =>
              /\ ~form.loading /\ form.inflight = <<>>
              /\ form'.loading /\ form'.results = None
              /\ form'.error = "" /\ form'.urlError = ""]_vars
    /\ [][Len(form.inflight') < Len(form.inflight) =>
              /\ ~form'.loading
              /\ (form'.results # None) # (form'.error # "")]_vars

\* C22 witness: after a request that ended in an error, the next one has
\* settled with a result, and the error is gone.
C22_Witness ==
    /\ form.page = "state"
    /\ ~form.loading /\ form.inflight = <<>>
    /\ form.results = Some([url |-> "https://example.org/", requestCount |-> 4])
    /\ form.error = ""

====
